---- MODULE Spec2Model ----
(***************************************************************************)
(* Tile coding (src/src/lib.rs): the quantizer, the two coordinate         *)
(* generators, the index-hash-table IHT and the stateless hashing entry     *)
(* points, as a state machine whose steps are the public calls.            *)
(*                                                                         *)
(* Conventions.                                                            *)
(*  - A Rust Option is a sequence of length at most one: None is << >>,    *)
(*    Some(x) is <<x>>.                                                    *)
(*  - An f64 argument is the exact rational k / FloatDen, held as its      *)
(*    numerator k.                                                         *)
(*  - isize and usize values stay far below their width in every run, so   *)
(*    they are plain integers; Rust's `/` and `%` on isize truncate        *)
(*    toward zero and are modelled by TruncDiv and RustRem.                *)
(*  - DefaultHasher is std's keyed SipHash.  Its values are not part of    *)
(*    this repository; the model keeps its shape (a deterministic keyed    *)
(*    fold over the length and the elements, in order) on a word of        *)
(*    HashBits bits and draws the key once, at construction.               *)
(*                                                                         *)
(* Specifications.                                                         *)
(*  - Spec: one caller and one table; every step is one whole public call  *)
(*    (or the caller letting go of the value it holds).                    *)
(*  - SpecH: Spec with the history `served` kept.                          *)
(*  - SpecCoords: the coordinate generators applied to one request.        *)
(*  - SpecFree: the free functions called twice, table calls in between.   *)
(*  - SpecExample: the three calls of the example on a table of 32.        *)
(*  - SpecPair: two requests on one table that does not overflow.          *)
(*  - SpecLookup: the single get_index calls, one per step.                *)
(*  - SpecShared: several callers on one table, one lookup per step.       *)
(***************************************************************************)
EXTENDS Integers, Sequences, FiniteSets, TLC

(* ------------------------------ bounds -------------------------------- *)
MaxSize == 2
MaxTilings == 2
MaxDims == 1
MaxK == 1
FloatDen == 2
MaxWidth == 1
MaxTag == 1
MaxKey == 1
HashBits == 3
MaxOverfull == 2
\* bounds of the coordinate-generator runs (SpecCoords)
MaxCoordTilings == 3
MaxCoordDims == 2
MaxCoordK == 4
MaxCoordWidth == 3

\* the example scenario (tests::different_tiles_for_different_coords):
\* IHT::new(32), 8 tilings, one dimension
ExampleSize == 32
ExampleTilings == 8
\* bound of the points of the example runs (numerators over FloatDen)
MaxExampleK == 5

\* bounds of the runs that compare two requests on one table (SpecPair)
MaxPairTilings == 3
MaxPairDims == 2
MaxPairK == 2
MaxPairTag == 2

\* number of callers that share one table (SpecShared)
NumCallers == 2

(* ------------------------------ helpers ------------------------------- *)
None == << >>
Some(x) == <<x>>
IsSome(o) == Len(o) = 1
Unwrap(o) == o[1]

RECURSIVE Pow2(_)
Pow2(n) == IF n = 0 THEN 1 ELSE 2 * Pow2(n - 1)

\* isize `/` : quotient truncated toward zero (divisor > 0 in every use).
TruncDiv(a, b) == IF a >= 0 THEN a \div b ELSE -((-a) \div b)
\* isize `%` : remainder with the sign of the dividend.
RustRem(a, b) == a - b * TruncDiv(a, b)

EmptyMap == [v \in {} |-> 0]

(* ------------------------------ state --------------------------------- *)
VARIABLES
    size,            \* IHT.size
    overfull_count,  \* IHT.overfull_count
    dictionary,      \* IHT.dictionary : coordinate vector -> index
    hash_key,        \* the key of DefaultHasher, fixed for the run
    op,              \* the call whose result the caller holds, or "idle"
    args,            \* its arguments
    result,          \* the value it returned
    panicked,        \* the call aborted the thread (a Rust panic)
    presented,       \* history: the first `size` distinct vectors given to get_index
    recording,       \* whether the run keeps the history `served`
    served           \* history: vector -> index first returned for it by get_index

vars == <<size, overfull_count, dictionary, hash_key, op, args, result,
          panicked, presented, recording, served>>

(* ------------------------------ hashing ------------------------------- *)
RECURSIVE HashFold(_, _, _)
HashFold(h, obj, i) ==
    IF i > Len(obj) THEN h
    ELSE HashFold((5 * h + (obj[i] % Pow2(HashBits)) + 3) % Pow2(HashBits), obj, i + 1)

\* base_hash: hash of a Vec<isize> (length prefix, then every element).
base_hash(obj) == HashFold((hash_key + Len(obj)) % Pow2(HashBits), obj, 1)

(* --------------------------- quantizer -------------------------------- *)
\* (x * num_tilings as f64).floor() as isize, with x = floats[i] / FloatDen
calculate_q_floats(floats, num_tilings) ==
    [i \in 1..Len(floats) |-> (floats[i] * num_tilings) \div FloatDen]

(* ----------------------- coordinate generators ------------------------ *)
RECURSIVE coords_loop(_, _, _, _, _, _)
coords_loop(i, b, tiling_x2, num_tilings, q_floats, coords) ==
    IF i > Len(q_floats) THEN coords
    ELSE coords_loop(i + 1, b + tiling_x2, tiling_x2, num_tilings, q_floats,
                     Append(coords, TruncDiv(q_floats[i] + b, num_tilings)))

\* calculate_coords without the displacement of the tiling (not what the
\* code does).
calculate_coords_no_offset(tiling, num_tilings, q_floats, ints) ==
    LET coords == coords_loop(1, 0, 0, num_tilings, q_floats, <<tiling>>)
    IN  IF IsSome(ints) THEN coords \o Unwrap(ints) ELSE coords

\* calculate_coords that does not put the tiling first (not what the code
\* does).
calculate_coords_no_tiling(tiling, num_tilings, q_floats, ints) ==
    LET coords == coords_loop(1, tiling, tiling * 2, num_tilings, q_floats, <<0>>)
    IN  IF IsSome(ints) THEN coords \o Unwrap(ints) ELSE coords

\* calculate_coords that leaves the discrete tags out (not what the code
\* does).
calculate_coords_no_tags(tiling, num_tilings, q_floats, ints) ==
    coords_loop(1, tiling, tiling * 2, num_tilings, q_floats, <<tiling>>)

calculate_coords(tiling, num_tilings, q_floats, ints) ==
    LET tiling_x2 == tiling * 2
        coords == coords_loop(1, tiling, tiling_x2, num_tilings, q_floats, <<tiling>>)
    IN  IF IsSome(ints) THEN coords \o Unwrap(ints) ELSE coords

Min(a, b) == IF a <= b THEN a ELSE b

RECURSIVE coords_wrap_loop(_, _, _, _, _, _, _)
coords_wrap_loop(i, b, tiling_x2, num_tilings, q_floats, wrap_widths, coords) ==
    IF i > Min(Len(q_floats), Len(wrap_widths)) THEN coords
    ELSE LET c == TruncDiv(q_floats[i] + RustRem(b, num_tilings), num_tilings)
             e == IF IsSome(wrap_widths[i]) THEN RustRem(c, Unwrap(wrap_widths[i])) ELSE c
         IN  coords_wrap_loop(i + 1, b + tiling_x2, tiling_x2, num_tilings, q_floats,
                              wrap_widths, Append(coords, e))

calculate_coords_wrap(tiling, num_tilings, q_floats, wrap_widths, ints) ==
    LET tiling_x2 == tiling * 2
        coords == coords_wrap_loop(1, tiling, tiling_x2, num_tilings, q_floats,
                                   wrap_widths, <<tiling>>)
    IN  IF IsSome(ints) THEN coords \o Unwrap(ints) ELSE coords

(* ------------------------------- IHT ---------------------------------- *)
\* An IHT value `self` is a record of the three fields.
IHT_new(sz) == [size |-> sz, overfull_count |-> 0, dictionary |-> EmptyMap]

IHT_count(self) == Cardinality(DOMAIN self.dictionary)
IHT_full(self) == Cardinality(DOMAIN self.dictionary) >= self.size
IHT_size(self) == self.size

\* get_index with the `% self.size` of the overfull path left out.
get_index_no_modulo(self, obj) ==
    LET count == Cardinality(DOMAIN self.dictionary) IN
    IF obj \in DOMAIN self.dictionary
    THEN [self |-> self, ret |-> self.dictionary[obj], panic |-> FALSE]
    ELSE IF count >= self.size
         THEN [self |-> [self EXCEPT !.overfull_count = @ + 1],
               ret |-> base_hash(obj), panic |-> FALSE]
         ELSE [self |-> [self EXCEPT !.dictionary = @ @@ (obj :> count)],
               ret |-> count, panic |-> FALSE]

\* get_index numbering the slots from 1: it stores and returns count + 1.
get_index_from_one(self, obj) ==
    LET count == Cardinality(DOMAIN self.dictionary) IN
    IF obj \in DOMAIN self.dictionary
    THEN [self |-> self, ret |-> self.dictionary[obj], panic |-> FALSE]
    ELSE IF count >= self.size
         THEN LET bumped == [self EXCEPT !.overfull_count = @ + 1] IN
              IF self.size = 0
              THEN [self |-> bumped, ret |-> 0, panic |-> TRUE]
              ELSE [self |-> bumped, ret |-> base_hash(obj) % self.size, panic |-> FALSE]
         ELSE [self |-> [self EXCEPT !.dictionary = @ @@ (obj :> count + 1)],
               ret |-> count + 1, panic |-> FALSE]

\* get_index whose overfull path mixes the overflow counter into the hash.
get_index_counter_hash(self, obj) ==
    LET count == Cardinality(DOMAIN self.dictionary) IN
    IF obj \in DOMAIN self.dictionary
    THEN [self |-> self, ret |-> self.dictionary[obj], panic |-> FALSE]
    ELSE IF count >= self.size
         THEN LET bumped == [self EXCEPT !.overfull_count = @ + 1] IN
              IF self.size = 0
              THEN [self |-> bumped, ret |-> 0, panic |-> TRUE]
              ELSE [self |-> bumped,
                    ret |-> (base_hash(obj) + bumped.overfull_count) % self.size,
                    panic |-> FALSE]
         ELSE [self |-> [self EXCEPT !.dictionary = @ @@ (obj :> count)],
               ret |-> count, panic |-> FALSE]

\* get_index testing `count > self.size`: one insertion too many.
get_index_off_by_one(self, obj) ==
    LET count == Cardinality(DOMAIN self.dictionary) IN
    IF obj \in DOMAIN self.dictionary
    THEN [self |-> self, ret |-> self.dictionary[obj], panic |-> FALSE]
    ELSE IF count > self.size
         THEN LET bumped == [self EXCEPT !.overfull_count = @ + 1] IN
              IF self.size = 0
              THEN [self |-> bumped, ret |-> 0, panic |-> TRUE]
              ELSE [self |-> bumped, ret |-> base_hash(obj) % self.size, panic |-> FALSE]
         ELSE [self |-> [self EXCEPT !.dictionary = @ @@ (obj :> count)],
               ret |-> count, panic |-> FALSE]

\* get_index whose overfull path stores the colliding index it returns.
get_index_caching(self, obj) ==
    LET count == Cardinality(DOMAIN self.dictionary) IN
    IF obj \in DOMAIN self.dictionary
    THEN [self |-> self, ret |-> self.dictionary[obj], panic |-> FALSE]
    ELSE IF count >= self.size
         THEN LET bumped == [self EXCEPT !.overfull_count = @ + 1] IN
              IF self.size = 0
              THEN [self |-> bumped, ret |-> 0, panic |-> TRUE]
              ELSE [self |-> [bumped EXCEPT !.dictionary =
                                  @ @@ (obj :> base_hash(obj) % self.size)],
                    ret |-> base_hash(obj) % self.size, panic |-> FALSE]
         ELSE [self |-> [self EXCEPT !.dictionary = @ @@ (obj :> count)],
               ret |-> count, panic |-> FALSE]

\* get_index returns the table after the call, the index, and whether the
\* call panicked (`% self.size` with size 0, after overfull_count was bumped).
\* get_index whose overfull path hashes with a salt of its own (not what
\* the code does).
get_index_salted_fallback(self, obj) ==
    LET count == Cardinality(DOMAIN self.dictionary) IN
    IF obj \in DOMAIN self.dictionary
    THEN [self |-> self, ret |-> self.dictionary[obj], panic |-> FALSE]
    ELSE IF count >= self.size
         THEN LET bumped == [self EXCEPT !.overfull_count = @ + 1] IN
              IF self.size = 0
              THEN [self |-> bumped, ret |-> 0, panic |-> TRUE]
              ELSE [self |-> bumped, ret |-> (base_hash(obj) + 1) % self.size,
                    panic |-> FALSE]
         ELSE [self |-> [self EXCEPT !.dictionary = @ @@ (obj :> count)],
               ret |-> count, panic |-> FALSE]

\* get_index that numbers a new vector with the count before the previous
\* insertion (not what the code does).
get_index_stale_count(self, obj) ==
    LET count == Cardinality(DOMAIN self.dictionary) IN
    IF obj \in DOMAIN self.dictionary
    THEN [self |-> self, ret |-> self.dictionary[obj], panic |-> FALSE]
    ELSE IF count >= self.size
         THEN LET bumped == [self EXCEPT !.overfull_count = @ + 1] IN
              IF self.size = 0
              THEN [self |-> bumped, ret |-> 0, panic |-> TRUE]
              ELSE [self |-> bumped, ret |-> base_hash(obj) % self.size, panic |-> FALSE]
         ELSE LET stale == IF count > 0 THEN count - 1 ELSE 0 IN
              [self |-> [self EXCEPT !.dictionary = @ @@ (obj :> stale)],
               ret |-> stale, panic |-> FALSE]

\* get_index that counts every lookup of an absent vector as an overflow
\* (not what the code does).
get_index_counting_misses(self, obj) ==
    LET count == Cardinality(DOMAIN self.dictionary)
        bumped == [self EXCEPT !.overfull_count = @ + 1]
    IN  IF obj \in DOMAIN self.dictionary
        THEN [self |-> self, ret |-> self.dictionary[obj], panic |-> FALSE]
        ELSE IF count >= self.size
             THEN IF self.size = 0
                  THEN [self |-> bumped, ret |-> 0, panic |-> TRUE]
                  ELSE [self |-> bumped, ret |-> base_hash(obj) % self.size,
                        panic |-> FALSE]
             ELSE [self |-> [bumped EXCEPT !.dictionary = @ @@ (obj :> count)],
                   ret |-> count, panic |-> FALSE]

get_index(self, obj) ==
    LET count == Cardinality(DOMAIN self.dictionary) IN
    IF obj \in DOMAIN self.dictionary
    THEN [self |-> self, ret |-> self.dictionary[obj], panic |-> FALSE]
    ELSE IF count >= self.size
         THEN LET bumped == [self EXCEPT !.overfull_count = @ + 1] IN
              IF self.size = 0
              THEN [self |-> bumped, ret |-> 0, panic |-> TRUE]
              ELSE [self |-> bumped, ret |-> base_hash(obj) % self.size, panic |-> FALSE]
         ELSE [self |-> [self EXCEPT !.dictionary = @ @@ (obj :> count)],
               ret |-> count, panic |-> FALSE]

\* get_index_read_only written with entry().or_insert(): it takes a slot.
get_index_read_only_inserting(self, obj) ==
    IF obj \in DOMAIN self.dictionary
    THEN [self |-> self, ret |-> Some(self.dictionary[obj])]
    ELSE IF Cardinality(DOMAIN self.dictionary) < self.size
         THEN [self |-> [self EXCEPT !.dictionary =
                             @ @@ (obj :> Cardinality(DOMAIN self.dictionary))],
               ret |-> None]
         ELSE [self |-> self, ret |-> None]

\* get_index_read_only answering with the hash fallback once the table is full.
get_index_read_only_fallback(self, obj) ==
    IF obj \in DOMAIN self.dictionary
    THEN [self |-> self, ret |-> Some(self.dictionary[obj])]
    ELSE IF Cardinality(DOMAIN self.dictionary) >= self.size /\ self.size > 0
         THEN [self |-> self, ret |-> Some(base_hash(obj) % self.size)]
         ELSE [self |-> self, ret |-> None]

get_index_read_only(self, obj) ==
    IF obj \in DOMAIN self.dictionary
    THEN [self |-> self, ret |-> Some(self.dictionary[obj])]
    ELSE [self |-> self, ret |-> None]

RECURSIVE IHT_tiles_loop(_, _, _, _, _, _)
IHT_tiles_loop(self, tiling, num_tilings, q_floats, ints, tiles) ==
    IF tiling >= num_tilings THEN [self |-> self, ret |-> tiles, panic |-> FALSE]
    ELSE LET r == get_index(self, calculate_coords(tiling, num_tilings, q_floats, ints)) IN
         IF r.panic THEN [self |-> r.self, ret |-> tiles, panic |-> TRUE]
         ELSE IHT_tiles_loop(r.self, tiling + 1, num_tilings, q_floats, ints,
                             Append(tiles, r.ret))

\* IHT::tiles with the loop started at tiling 1.
IHT_tiles_from_one(self, num_tilings, floats, ints) ==
    IHT_tiles_loop(self, 1, num_tilings, calculate_q_floats(floats, num_tilings), ints, << >>)

IHT_tiles(self, num_tilings, floats, ints) ==
    IHT_tiles_loop(self, 0, num_tilings, calculate_q_floats(floats, num_tilings), ints, << >>)

RECURSIVE IHT_tiles_read_only_loop(_, _, _, _, _, _)
IHT_tiles_read_only_loop(self, tiling, num_tilings, q_floats, ints, tiles) ==
    IF tiling >= num_tilings THEN [self |-> self, ret |-> tiles, panic |-> FALSE]
    ELSE LET r == get_index_read_only(self,
                      calculate_coords(tiling, num_tilings, q_floats, ints)) IN
         IHT_tiles_read_only_loop(r.self, tiling + 1, num_tilings, q_floats, ints,
                                  Append(tiles, r.ret))

IHT_tiles_read_only(self, num_tilings, floats, ints) ==
    IHT_tiles_read_only_loop(self, 0, num_tilings,
                             calculate_q_floats(floats, num_tilings), ints, << >>)

RECURSIVE IHT_tiles_wrap_loop(_, _, _, _, _, _, _)
IHT_tiles_wrap_loop(self, tiling, num_tilings, q_floats, wrap_widths, ints, tiles) ==
    IF tiling >= num_tilings THEN [self |-> self, ret |-> tiles, panic |-> FALSE]
    ELSE LET r == get_index(self, calculate_coords_wrap(tiling, num_tilings, q_floats,
                                                        wrap_widths, ints)) IN
         IF r.panic THEN [self |-> r.self, ret |-> tiles, panic |-> TRUE]
         ELSE IHT_tiles_wrap_loop(r.self, tiling + 1, num_tilings, q_floats, wrap_widths,
                                  ints, Append(tiles, r.ret))

IHT_tiles_wrap(self, num_tilings, floats, wrap_widths, ints) ==
    IHT_tiles_wrap_loop(self, 0, num_tilings, calculate_q_floats(floats, num_tilings),
                        wrap_widths, ints, << >>)

RECURSIVE IHT_tiles_wrap_read_only_loop(_, _, _, _, _, _, _)
IHT_tiles_wrap_read_only_loop(self, tiling, num_tilings, q_floats, wrap_widths, ints, tiles) ==
    IF tiling >= num_tilings THEN [self |-> self, ret |-> tiles, panic |-> FALSE]
    ELSE LET r == get_index_read_only(self, calculate_coords_wrap(tiling, num_tilings,
                                                q_floats, wrap_widths, ints)) IN
         IHT_tiles_wrap_read_only_loop(r.self, tiling + 1, num_tilings, q_floats,
                                       wrap_widths, ints, Append(tiles, r.ret))

IHT_tiles_wrap_read_only(self, num_tilings, floats, wrap_widths, ints) ==
    IHT_tiles_wrap_read_only_loop(self, 0, num_tilings,
                                  calculate_q_floats(floats, num_tilings),
                                  wrap_widths, ints, << >>)

(* ------------------------ stateless entry points ---------------------- *)
\* `base_hash(coords) % size` panics when size is 0.
RECURSIVE tiles_loop(_, _, _, _, _, _)
tiles_loop(sz, tiling, num_tilings, q_floats, ints, acc) ==
    IF tiling >= num_tilings THEN [ret |-> acc, panic |-> FALSE]
    ELSE IF sz = 0 THEN [ret |-> acc, panic |-> TRUE]
    ELSE tiles_loop(sz, tiling + 1, num_tilings, q_floats, ints,
             Append(acc, base_hash(calculate_coords(tiling, num_tilings, q_floats, ints)) % sz))

\* tiles with an answer that follows the table (not what the code does).
tiles_table_dependent(sz, num_tilings, floats, ints) ==
    LET r == tiles_loop(sz, 0, num_tilings, calculate_q_floats(floats, num_tilings),
                        ints, << >>)
    IN  [ret |-> [i \in 1..Len(r.ret) |->
                      (r.ret[i] + Cardinality(DOMAIN dictionary)) % sz],
         panic |-> r.panic]

tiles(sz, num_tilings, floats, ints) ==
    tiles_loop(sz, 0, num_tilings, calculate_q_floats(floats, num_tilings), ints, << >>)

RECURSIVE tiles_wrap_loop(_, _, _, _, _, _, _)
tiles_wrap_loop(sz, tiling, num_tilings, q_floats, wrap_widths, ints, acc) ==
    IF tiling >= num_tilings THEN [ret |-> acc, panic |-> FALSE]
    ELSE IF sz = 0 THEN [ret |-> acc, panic |-> TRUE]
    ELSE tiles_wrap_loop(sz, tiling + 1, num_tilings, q_floats, wrap_widths, ints,
             Append(acc, base_hash(calculate_coords_wrap(tiling, num_tilings, q_floats,
                                                         wrap_widths, ints)) % sz))

tiles_wrap(sz, num_tilings, floats, wrap_widths, ints) ==
    tiles_wrap_loop(sz, 0, num_tilings, calculate_q_floats(floats, num_tilings),
                    wrap_widths, ints, << >>)

(* ------------------------- inputs of the calls ------------------------ *)
Tilings == 1..MaxTilings
FloatSeqs == UNION {[1..d -> (-MaxK)..MaxK] : d \in 0..MaxDims}
WidthOpts == {None} \cup {Some(w) : w \in 1..MaxWidth}
WrapSeqs == UNION {[1..d -> WidthOpts] : d \in 0..MaxDims}
IntsOpts == {None} \cup {Some(<<g>>) : g \in 1..MaxTag}

NoArgs == [num_tilings |-> 0, floats |-> << >>, wrap_widths |-> << >>,
           ints |-> None, size |-> 0]

Self == [size |-> size, overfull_count |-> overfull_count, dictionary |-> dictionary]

\* The coordinate vector of every tiling of a request, in tiling order.
Keys(n, floats, ints) ==
    [t \in 1..n |-> calculate_coords(t - 1, n, calculate_q_floats(floats, n), ints)]
KeysWrap(n, floats, wrap_widths, ints) ==
    [t \in 1..n |-> calculate_coords_wrap(t - 1, n, calculate_q_floats(floats, n),
                                          wrap_widths, ints)]

(* ------------------------- history variables -------------------------- *)
Range(s) == {s[i] : i \in 1..Len(s)}

RECURSIVE NoteServed(_, _, _, _)
NoteServed(s, keys, ret, i) ==
    IF i > Len(ret) THEN s
    ELSE NoteServed(IF keys[i] \in DOMAIN s THEN s ELSE s @@ (keys[i] :> ret[i]),
                    keys, ret, i + 1)

RECURSIVE NotePresented(_, _, _, _, _)
NotePresented(p, keys, ret, i, sz) ==
    IF i > Len(ret) THEN p
    ELSE NotePresented(IF keys[i] \in Range(p) \/ Len(p) >= sz THEN p
                       ELSE Append(p, keys[i]),
                       keys, ret, i + 1, sz)

(* ------------------------------ actions ------------------------------- *)
Init ==
    /\ size \in 0..MaxSize
    /\ overfull_count = 0
    /\ dictionary = EmptyMap
    /\ hash_key \in 0..MaxKey
    /\ op = "idle"
    /\ args = NoArgs
    /\ result = << >>
    /\ panicked = FALSE
    /\ presented = << >>
    /\ recording = FALSE
    /\ served = EmptyMap

\* The same program, with the history of every served vector kept.
InitH ==
    /\ size \in 0..MaxSize
    /\ overfull_count = 0
    /\ dictionary = EmptyMap
    /\ hash_key \in 0..MaxKey
    /\ op = "idle"
    /\ args = NoArgs
    /\ result = << >>
    /\ panicked = FALSE
    /\ presented = << >>
    /\ recording = TRUE
    /\ served = EmptyMap

Inserted(r, o, a, keys) ==
    /\ size' = r.self.size
    /\ overfull_count' = r.self.overfull_count
    /\ dictionary' = r.self.dictionary
    /\ op' = o
    /\ args' = a
    /\ result' = r.ret
    /\ panicked' = r.panic
    /\ presented' = NotePresented(presented, keys, r.ret, 1, size)
    /\ served' = IF recording THEN NoteServed(served, keys, r.ret, 1) ELSE served
    /\ UNCHANGED <<hash_key, recording>>

Returned(r, o, a) ==
    /\ size' = r.self.size
    /\ overfull_count' = r.self.overfull_count
    /\ dictionary' = r.self.dictionary
    /\ op' = o
    /\ args' = a
    /\ result' = r.ret
    /\ panicked' = r.panic
    /\ UNCHANGED <<hash_key, presented, recording, served>>

\* The caller makes one call at a time; a panic ends the thread.
Ready == ~panicked /\ op = "idle"

CallTiles ==
    /\ Ready
    /\ overfull_count < MaxOverfull
    /\ \E n \in Tilings, floats \in FloatSeqs, ints \in IntsOpts :
         Inserted(IHT_tiles(Self, n, floats, ints), "tiles",
                  [NoArgs EXCEPT !.num_tilings = n, !.floats = floats, !.ints = ints],
                  Keys(n, floats, ints))

CallTilesWrap ==
    /\ Ready
    /\ overfull_count < MaxOverfull
    /\ \E n \in Tilings, floats \in FloatSeqs, ww \in WrapSeqs, ints \in IntsOpts :
         Inserted(IHT_tiles_wrap(Self, n, floats, ww, ints), "tiles_wrap",
                  [NoArgs EXCEPT !.num_tilings = n, !.floats = floats,
                                 !.wrap_widths = ww, !.ints = ints],
                  KeysWrap(n, floats, ww, ints))

CallTilesReadOnly ==
    /\ Ready
    /\ \E n \in Tilings, floats \in FloatSeqs, ints \in IntsOpts :
         Returned(IHT_tiles_read_only(Self, n, floats, ints), "tiles_read_only",
                  [NoArgs EXCEPT !.num_tilings = n, !.floats = floats, !.ints = ints])

CallTilesWrapReadOnly ==
    /\ Ready
    /\ \E n \in Tilings, floats \in FloatSeqs, ww \in WrapSeqs, ints \in IntsOpts :
         Returned(IHT_tiles_wrap_read_only(Self, n, floats, ww, ints),
                  "tiles_wrap_read_only",
                  [NoArgs EXCEPT !.num_tilings = n, !.floats = floats,
                                 !.wrap_widths = ww, !.ints = ints])

CallFull ==
    /\ Ready
    /\ Returned([self |-> Self, ret |-> IHT_full(Self), panic |-> FALSE], "full", NoArgs)

CallCount ==
    /\ Ready
    /\ Returned([self |-> Self, ret |-> IHT_count(Self), panic |-> FALSE], "count", NoArgs)

CallSize ==
    /\ Ready
    /\ Returned([self |-> Self, ret |-> IHT_size(Self), panic |-> FALSE], "size", NoArgs)

CallFreeTiles ==
    /\ Ready
    /\ \E sz \in 0..MaxSize, n \in Tilings, floats \in FloatSeqs, ints \in IntsOpts :
         LET r == tiles(sz, n, floats, ints) IN
         Returned([self |-> Self, ret |-> r.ret, panic |-> r.panic], "free_tiles",
                  [NoArgs EXCEPT !.num_tilings = n, !.floats = floats, !.ints = ints,
                                 !.size = sz])

CallFreeTilesWrap ==
    /\ Ready
    /\ \E sz \in 0..MaxSize, n \in Tilings, floats \in FloatSeqs, ww \in WrapSeqs,
          ints \in IntsOpts :
         LET r == tiles_wrap(sz, n, floats, ww, ints) IN
         Returned([self |-> Self, ret |-> r.ret, panic |-> r.panic], "free_tiles_wrap",
                  [NoArgs EXCEPT !.num_tilings = n, !.floats = floats,
                                 !.wrap_widths = ww, !.ints = ints, !.size = sz])

\* The caller, holding the answer of a read-only call, makes the inserting
\* call with the same arguments.
ProbeThenTiles ==
    /\ ~panicked
    /\ op = "tiles_read_only"
    /\ overfull_count < MaxOverfull
    /\ Inserted(IHT_tiles(Self, args.num_tilings, args.floats, args.ints), "tiles", args,
                Keys(args.num_tilings, args.floats, args.ints))

ProbeThenTilesWrap ==
    /\ ~panicked
    /\ op = "tiles_wrap_read_only"
    /\ overfull_count < MaxOverfull
    /\ Inserted(IHT_tiles_wrap(Self, args.num_tilings, args.floats, args.wrap_widths,
                               args.ints),
                "tiles_wrap", args,
                KeysWrap(args.num_tilings, args.floats, args.wrap_widths, args.ints))

\* The caller lets go of the value it was returned.
Drop ==
    /\ ~panicked
    /\ op # "idle"
    /\ op' = "idle"
    /\ args' = NoArgs
    /\ result' = << >>
    /\ UNCHANGED <<size, overfull_count, dictionary, hash_key, panicked, presented,
                   recording, served>>

Next ==
    \/ CallTiles
    \/ CallTilesWrap
    \/ CallTilesReadOnly
    \/ CallTilesWrapReadOnly
    \/ CallFull
    \/ CallCount
    \/ CallSize
    \/ CallFreeTiles
    \/ CallFreeTilesWrap
    \/ ProbeThenTiles
    \/ ProbeThenTilesWrap
    \/ Drop

Spec == Init /\ [][Next]_vars

SpecH == InitH /\ [][Next]_vars

(* --------- the stateless entry points among calls on a table --------- *)
\* Runs in which the caller holds the answer of one call of a free function,
\* makes inserting calls on a table, and then calls a free function again
\* with the same `size`.

\* An inserting call whose answer the caller does not keep.
Between(r, keys) ==
    /\ size' = r.self.size
    /\ overfull_count' = r.self.overfull_count
    /\ dictionary' = r.self.dictionary
    /\ panicked' = r.panic
    /\ presented' = NotePresented(presented, keys, r.ret, 1, size)
    /\ UNCHANGED <<hash_key, op, args, result, recording, served>>

BetweenTiles ==
    /\ ~panicked
    /\ op \in {"free_tiles", "free_tiles_wrap"}
    /\ overfull_count < MaxOverfull
    /\ \E n \in Tilings, floats \in FloatSeqs, ints \in IntsOpts :
         Between(IHT_tiles(Self, n, floats, ints), Keys(n, floats, ints))

\* The second call of a free function, for a request that shares a
\* coordinate vector with the first: the caller now holds both answers and,
\* for reference, the coordinate vectors of both requests.
Again(r, o, keys, a) ==
    /\ Range(keys) \cap Range(IF op = "free_tiles"
                              THEN Keys(args.num_tilings, args.floats, args.ints)
                              ELSE KeysWrap(args.num_tilings, args.floats,
                                            args.wrap_widths, args.ints)) # {}
    /\ op' = "free_again"
    /\ args' = a
    /\ result' = [first |-> result,
                  first_op |-> op,
                  again_op |-> o,
                  first_keys |-> IF op = "free_tiles"
                                 THEN Keys(args.num_tilings, args.floats, args.ints)
                                 ELSE KeysWrap(args.num_tilings, args.floats,
                                               args.wrap_widths, args.ints),
                  first_args |-> args,
                  again |-> r.ret,
                  again_keys |-> keys]
    /\ panicked' = r.panic
    /\ UNCHANGED <<size, overfull_count, dictionary, hash_key, presented, recording,
                   served>>

AgainFreeTiles ==
    /\ ~panicked
    /\ op \in {"free_tiles", "free_tiles_wrap"}
    /\ \E n \in Tilings, floats \in FloatSeqs, ints \in IntsOpts :
         Again(tiles(args.size, n, floats, ints), "free_tiles", Keys(n, floats, ints),
               [NoArgs EXCEPT !.num_tilings = n, !.floats = floats, !.ints = ints,
                              !.size = args.size])

AgainFreeTilesWrap ==
    /\ ~panicked
    /\ op \in {"free_tiles", "free_tiles_wrap"}
    /\ \E n \in Tilings, floats \in FloatSeqs, ww \in WrapSeqs, ints \in IntsOpts :
         Again(tiles_wrap(args.size, n, floats, ww, ints), "free_tiles_wrap",
               KeysWrap(n, floats, ww, ints),
               [NoArgs EXCEPT !.num_tilings = n, !.floats = floats, !.wrap_widths = ww,
                              !.ints = ints, !.size = args.size])

NextFree ==
    \/ CallFreeTiles
    \/ CallFreeTilesWrap
    \/ BetweenTiles
    \/ AgainFreeTiles
    \/ AgainFreeTilesWrap

SpecFree == Init /\ [][NextFree]_vars

(* ------------------------ the example scenario ------------------------ *)
\* Runs of the scenario of tests::different_tiles_for_different_coords on a
\* fresh table of ExampleSize: tiles at a point, tiles at the same point
\* again, tiles at another point, all with ExampleTilings tilings and one
\* dimension.  The caller keeps the three answers.
ExamplePoints == (-MaxExampleK)..MaxExampleK

InitExample ==
    /\ size = ExampleSize
    /\ overfull_count = 0
    /\ dictionary = EmptyMap
    /\ hash_key \in 0..MaxKey
    /\ op = "idle"
    /\ args = NoArgs
    /\ result = << >>
    /\ panicked = FALSE
    /\ presented = << >>
    /\ recording = FALSE
    /\ served = EmptyMap

Example(r, o, res) ==
    /\ size' = r.self.size
    /\ overfull_count' = r.self.overfull_count
    /\ dictionary' = r.self.dictionary
    /\ op' = o
    /\ result' = res
    /\ panicked' = r.panic
    /\ UNCHANGED <<hash_key, args, presented, recording, served>>

ExampleFirst ==
    /\ op = "idle"
    /\ \E x \in ExamplePoints :
         LET r == IHT_tiles(Self, ExampleTilings, <<x>>, None) IN
         Example(r, "example_first", [at |-> x, first |-> r.ret])

ExampleAgain ==
    /\ op = "example_first"
    /\ LET r == IHT_tiles(Self, ExampleTilings, <<result.at>>, None) IN
       Example(r, "example_again",
               [at |-> result.at, first |-> result.first, again |-> r.ret])

ExampleOther ==
    /\ op = "example_again"
    /\ \E y \in ExamplePoints :
         LET r == IHT_tiles(Self, ExampleTilings, <<y>>, None) IN
         Example(r, "example_other",
                 [at |-> result.at, first |-> result.first, again |-> result.again,
                  then |-> y, other |-> r.ret])

NextExample ==
    \/ ExampleFirst
    \/ ExampleAgain
    \/ ExampleOther

SpecExample == InitExample /\ [][NextExample]_vars

(* -------------------- two requests on one table ---------------------- *)
\* Runs that make two IHT::tiles calls with the same num_tilings and the
\* same number of dimensions on a fresh table large enough to take every
\* vector of both; the caller keeps both answers.
PairSize == 2 * MaxPairTilings
PairPoints == UNION {[1..d -> (-MaxPairK)..MaxPairK] : d \in 1..MaxPairDims}
PairTags == {None, Some(<< >>)} \cup {Some(<<g>>) : g \in 1..MaxPairTag}

InitPair ==
    /\ size = PairSize
    /\ overfull_count = 0
    /\ dictionary = EmptyMap
    /\ hash_key \in 0..MaxKey
    /\ op = "idle"
    /\ args = NoArgs
    /\ result = << >>
    /\ panicked = FALSE
    /\ presented = << >>
    /\ recording = FALSE
    /\ served = EmptyMap

PairFirst ==
    /\ op = "idle"
    /\ \E n \in 1..MaxPairTilings, x \in PairPoints, g \in PairTags :
         Inserted(IHT_tiles(Self, n, x, g), "pair_first",
                  [NoArgs EXCEPT !.num_tilings = n, !.floats = x, !.ints = g],
                  Keys(n, x, g))

PairSecond ==
    /\ op = "pair_first"
    /\ \E y \in PairPoints, g \in PairTags :
         /\ Len(y) = Len(args.floats)
         /\ LET r == IHT_tiles(Self, args.num_tilings, y, g) IN
            /\ size' = r.self.size
            /\ overfull_count' = r.self.overfull_count
            /\ dictionary' = r.self.dictionary
            /\ op' = "pair_second"
            /\ args' = [NoArgs EXCEPT !.num_tilings = args.num_tilings, !.floats = y,
                                      !.ints = g]
            /\ result' = [first |-> result, first_args |-> args, second |-> r.ret]
            /\ panicked' = r.panic
            /\ presented' = NotePresented(presented, Keys(args.num_tilings, y, g),
                                          r.ret, 1, size)
            /\ UNCHANGED <<hash_key, recording, served>>

NextPair ==
    \/ PairFirst
    \/ PairSecond

SpecPair == InitPair /\ [][NextPair]_vars

(* ------------------------ one lookup at a time ------------------------ *)
\* Runs whose steps are the single get_index calls that the loops of
\* IHT::tiles and IHT::tiles_wrap make, on the vectors the generators give
\* for the requests of Spec.
LookupVectors ==
    UNION {Range(Keys(n, floats, ints)) :
               n \in Tilings, floats \in FloatSeqs, ints \in IntsOpts}
    \cup UNION {Range(KeysWrap(n, floats, ww, ints)) :
               n \in Tilings, floats \in FloatSeqs, ww \in WrapSeqs, ints \in IntsOpts}

Lookup ==
    /\ ~panicked
    /\ overfull_count < MaxOverfull
    /\ \E obj \in LookupVectors :
         LET r == get_index(Self, obj) IN
         /\ size' = r.self.size
         /\ overfull_count' = r.self.overfull_count
         /\ dictionary' = r.self.dictionary
         /\ op' = "get_index"
         /\ args' = obj
         /\ result' = r.ret
         /\ panicked' = r.panic
         /\ presented' = NotePresented(presented, <<obj>>, <<r.ret>>, 1, size)
         /\ UNCHANGED <<hash_key, recording, served>>

NextLookup == Lookup

SpecLookup == Init /\ [][NextLookup]_vars

(* --------------------- several callers, one table --------------------- *)
\* Runs in which NumCallers callers share one table (behind a lock:
\* get_index takes &mut self).  A caller starts an IHT::tiles or
\* IHT::tiles_wrap call and its loop then makes its lookups one at a time;
\* between two lookups of one caller the lookups of the others may run.
\* `args[c]` is the sequence of coordinate vectors of caller c's call and
\* `result[c]` the indices it has been returned so far.
Callers == 1..NumCallers

Requests ==
    {Keys(n, floats, ints) : n \in Tilings, floats \in FloatSeqs, ints \in IntsOpts}
    \cup {KeysWrap(n, floats, ww, ints) :
              n \in Tilings, floats \in FloatSeqs, ww \in WrapSeqs, ints \in IntsOpts}

InitShared ==
    /\ size \in 0..MaxSize
    /\ overfull_count = 0
    /\ dictionary = EmptyMap
    /\ hash_key \in 0..MaxKey
    /\ op = "shared"
    /\ args = [c \in Callers |-> << >>]
    /\ result = [c \in Callers |-> << >>]
    /\ panicked = FALSE
    /\ presented = << >>
    /\ recording = FALSE
    /\ served = EmptyMap

\* Caller c, its previous call returned, starts a call.
SharedStart ==
    /\ ~panicked
    /\ \E c \in Callers, keys \in Requests :
         /\ Len(result[c]) = Len(args[c])
         /\ args' = [args EXCEPT ![c] = keys]
         /\ result' = [result EXCEPT ![c] = << >>]
         /\ UNCHANGED <<size, overfull_count, dictionary, hash_key, op, panicked,
                        presented, recording, served>>

\* The loop of caller c's call makes its next lookup, as one whole get_index.
SharedLookup ==
    /\ ~panicked
    /\ overfull_count < MaxOverfull
    /\ \E c \in Callers :
         /\ Len(result[c]) < Len(args[c])
         /\ LET obj == args[c][Len(result[c]) + 1]
                r == get_index(Self, obj)
            IN  /\ size' = r.self.size
                /\ overfull_count' = r.self.overfull_count
                /\ dictionary' = r.self.dictionary
                /\ result' = [result EXCEPT ![c] = Append(@, r.ret)]
                /\ panicked' = r.panic
                /\ presented' = NotePresented(presented, <<obj>>, <<r.ret>>, 1, size)
                /\ UNCHANGED <<hash_key, op, args, recording, served>>

NextShared ==
    \/ SharedStart
    \/ SharedLookup

SpecShared == InitShared /\ [][NextShared]_vars

(* ------------------ the coordinate generators alone ------------------ *)
\* Runs that apply the generators to one request drawn at the start; the
\* table is not touched.
CoordFloatSeqs == UNION {[1..d -> (-MaxCoordK)..MaxCoordK] : d \in 1..MaxCoordDims}
CoordWidthOpts == {None} \cup {Some(w) : w \in 1..MaxCoordWidth}
CoordWrapSeqs == UNION {[1..d -> CoordWidthOpts] : d \in 0..MaxCoordDims}
CoordArgs ==
    UNION {{[tiling |-> t, num_tilings |-> n, floats |-> f, wrap_widths |-> w, ints |-> g] :
                t \in 0..(n - 1), f \in CoordFloatSeqs, w \in CoordWrapSeqs, g \in IntsOpts} :
           n \in 1..MaxCoordTilings}

InitCoords ==
    /\ size = 0
    /\ overfull_count = 0
    /\ dictionary = EmptyMap
    /\ hash_key = 0
    /\ op = "idle"
    /\ args \in CoordArgs
    /\ result = << >>
    /\ panicked = FALSE
    /\ presented = << >>
    /\ recording = FALSE
    /\ served = EmptyMap

Computed(o, r) ==
    /\ op = "idle"
    /\ op' = o
    /\ result' = r
    /\ UNCHANGED <<size, overfull_count, dictionary, hash_key, args, panicked, presented,
                   recording, served>>

ApplyCoords ==
    Computed("calculate_coords",
             calculate_coords(args.tiling, args.num_tilings,
                              calculate_q_floats(args.floats, args.num_tilings), args.ints))

ApplyCoordsWrap ==
    Computed("calculate_coords_wrap",
             calculate_coords_wrap(args.tiling, args.num_tilings,
                                   calculate_q_floats(args.floats, args.num_tilings),
                                   args.wrap_widths, args.ints))

\* The point moved by one wrap width along dimension d (w is FloatDen * w
\* in numerators).
Moved(floats, d, w) == [floats EXCEPT ![d] = @ + FloatDen * w]

\* The wrap generator at a point and at the point one wrap width further
\* along a wrapped dimension.
ApplyWrapShift ==
    \E d \in 1..Min(Len(args.floats), Len(args.wrap_widths)) :
        /\ IsSome(args.wrap_widths[d])
        /\ Computed("wrap_shift",
                    [dim |-> d,
                     at |-> calculate_coords_wrap(args.tiling, args.num_tilings,
                                calculate_q_floats(args.floats, args.num_tilings),
                                args.wrap_widths, args.ints),
                     moved |-> calculate_coords_wrap(args.tiling, args.num_tilings,
                                calculate_q_floats(Moved(args.floats, d,
                                                         Unwrap(args.wrap_widths[d])),
                                                   args.num_tilings),
                                args.wrap_widths, args.ints)])

\* Both generators applied to the same tiling of the same request.
ApplyBoth ==
    Computed("coords_both",
             [plain |-> calculate_coords(args.tiling, args.num_tilings,
                            calculate_q_floats(args.floats, args.num_tilings), args.ints),
              wrap |-> calculate_coords_wrap(args.tiling, args.num_tilings,
                           calculate_q_floats(args.floats, args.num_tilings),
                           args.wrap_widths, args.ints)])

NextCoords ==
    \/ ApplyCoords
    \/ ApplyCoordsWrap
    \/ ApplyWrapShift
    \/ ApplyBoth

SpecCoords == InitCoords /\ [][NextCoords]_vars

(* ============================ properties ============================== *)
Inserting == {"tiles", "tiles_wrap"}
ReadOnly == {"tiles_read_only", "tiles_wrap_read_only"}
Count == Cardinality(DOMAIN dictionary)

\* The coordinate vectors of the call the caller holds the result of.
CallKeys ==
    IF op \in {"tiles", "tiles_read_only", "free_tiles"}
    THEN Keys(args.num_tilings, args.floats, args.ints)
    ELSE KeysWrap(args.num_tilings, args.floats, args.wrap_widths, args.ints)

\* C1: with capacity >= 1, every index tiles / tiles_wrap return, and every
\* Some(i) a read-only call returns, satisfies 0 <= i < capacity, before and
\* after the table overflows, negative inputs included.
C1_IndexInRange ==
    size >= 1 =>
        /\ op \in Inserting =>
             \A i \in 1..Len(result) : result[i] >= 0 /\ result[i] < size
        /\ op \in ReadOnly =>
             \A i \in 1..Len(result) :
                 IsSome(result[i]) => Unwrap(result[i]) >= 0 /\ Unwrap(result[i]) < size

\* An inserting call on a negative input returned a hash-fallback index
\* (its vector holds no slot of the full table).
C1_Witness ==
    /\ op \in Inserting
    /\ size >= 2
    /\ Count = size
    /\ \E j \in 1..Len(args.floats) : args.floats[j] < 0
    /\ \E i \in 1..Len(result) : CallKeys[i] \notin DOMAIN dictionary

\* C2: on a fresh table of capacity C the k-th distinct vector given to the
\* inserting lookup (k = 0..C-1) holds and is returned index k; the first C
\* distinct vectors hold exactly {0..C-1}, none skipped or reused, also when
\* capacity is reached in the middle of one call.
C2_Density ==
    /\ Len(presented) <= size
    /\ \A k \in 1..Len(presented) :
         /\ presented[k] \in DOMAIN dictionary
         /\ dictionary[presented[k]] = k - 1
    /\ op \in Inserting =>
         \A i \in 1..Len(result) : \A k \in 1..Len(presented) :
             CallKeys[i] = presented[k] => result[i] = k - 1
    /\ Len(presented) = size =>
         /\ DOMAIN dictionary = Range(presented)
         /\ {dictionary[v] : v \in DOMAIN dictionary} = 0..(size - 1)

\* One call of two tilings took the last free index for its first tiling
\* and overflowed on its second.
C2_Witness ==
    /\ op \in Inserting
    /\ size = 2
    /\ Len(result) = 2
    /\ Len(presented) = size
    /\ CallKeys[1] = presented[size]
    /\ result[1] = size - 1
    /\ CallKeys[2] \notin DOMAIN dictionary

\* C3: once an inserting lookup has returned index i for a vector, every
\* later inserting lookup of that vector returns i, whatever calls came in
\* between, for a vector with a slot and for one served by the fallback.
C3_IndexStable ==
    (recording /\ op \in Inserting) =>
        \A i \in 1..Len(result) :
            /\ CallKeys[i] \in DOMAIN served
            /\ result[i] = served[CallKeys[i]]

\* The same slotless vector was served by the fallback a second time.
C3_Witness ==
    /\ recording
    /\ op \in Inserting
    /\ size >= 2
    /\ Len(result) = 1
    /\ CallKeys[1] \notin DOMAIN dictionary
    /\ overfull_count = 2
    /\ Cardinality(DOMAIN served \ DOMAIN dictionary) = 1

NonesBefore(i) == Cardinality({j \in 1..(i - 1) : result[j] = None})

\* C4: a read-only call leaves size, the mapping and overfull_count as they
\* were, and the inserting call made next with the same arguments gives
\* every vector the read-only call reported absent the index count had
\* then (while there is room), as if the read-only call had not been made.
C4_ReadOnlyFrame ==
    [][ /\ op' \in ReadOnly =>
             /\ size' = size
             /\ dictionary' = dictionary
             /\ overfull_count' = overfull_count
        /\ (op \in ReadOnly /\ op' \in Inserting) =>
             \A i \in 1..Len(result') :
                 (result[i] = None /\ Count + NonesBefore(i) < size) =>
                     result'[i] = Count + NonesBefore(i)
      ]_vars

\* A read-only call reported a vector absent from a table that holds
\* entries and has room left.
C4_Witness ==
    /\ op \in ReadOnly
    /\ Count >= 1
    /\ Count < size
    /\ \E i \in 1..Len(result) : result[i] = None

\* C5: a read-only lookup answers Some(i) exactly for a vector holding slot
\* i (the i the inserting lookup returned for it) and None for every other
\* vector, full table or not, also for a vector the fallback served before.
C5_ReadOnlyAnswer ==
    (recording /\ op \in ReadOnly) =>
        \A i \in 1..Len(result) :
            LET v == CallKeys[i] IN
            /\ v \in DOMAIN dictionary =>
                 /\ result[i] = Some(dictionary[v])
                 /\ v \in DOMAIN served
                 /\ served[v] = dictionary[v]
            /\ v \notin DOMAIN dictionary => result[i] = None

\* A read-only call on a full table answered None for a vector the
\* fallback had served, and Some for a vector with a slot.
C5_Witness ==
    /\ recording
    /\ op \in ReadOnly
    /\ Count >= size
    /\ \E i \in 1..Len(result) :
         /\ CallKeys[i] \in DOMAIN served
         /\ CallKeys[i] \notin DOMAIN dictionary
         /\ result[i] = None
    /\ \E i \in 1..Len(result) : IsSome(result[i])

Free == {"free_tiles", "free_tiles_wrap"}

\* C6: every entry point that returns gives exactly num_tilings elements,
\* element t being the answer for the coordinate vector of tiling t, for
\* any number of dimensions and tags and for negative values.
C6_OnePerTiling ==
    (~panicked /\ op \in Inserting \cup ReadOnly \cup Free) =>
        /\ Len(result) = args.num_tilings
        /\ \A i \in 1..Len(result) :
             LET v == CallKeys[i] IN
             /\ op \in Inserting =>
                  result[i] = IF v \in DOMAIN dictionary THEN dictionary[v]
                              ELSE base_hash(v) % size
             /\ op \in ReadOnly =>
                  result[i] = IF v \in DOMAIN dictionary THEN Some(dictionary[v])
                              ELSE None
             /\ op \in Free => result[i] = base_hash(v) % args.size

\* An inserting call with MaxTilings tilings, a negative value and a tag.
C6_Witness ==
    /\ op = "tiles"
    /\ ~panicked
    /\ args.num_tilings = MaxTilings
    /\ Len(result) = MaxTilings
    /\ \E j \in 1..Len(args.floats) : args.floats[j] < 0
    /\ IsSome(args.ints)

\* C7: for every tiling, every positive wrap width w and every value v,
\* negative ones included, the wrap generator gives the same coordinate
\* element on the wrapped dimension for v and for v + w.
C7_WrapEquivalence ==
    op = "wrap_shift" => result.at[result.dim + 1] = result.moved[result.dim + 1]

\* C8: no call on a constructed table fails, capacity 0 included.
C8_NoOperationFails ==
    ~(panicked /\ op \in Inserting \cup ReadOnly \cup {"full", "count", "size"})

\* C9: count() <= size() in every state, size never changes, and full(),
\* count() and size() answer count >= size, count and size.
C9_CountWithinSize ==
    /\ [](/\ Count <= size
          /\ op = "full" => result = (Count >= size)
          /\ op = "count" => result = Count
          /\ op = "size" => result = size)
    /\ [][size' = size]_vars

\* full() answered TRUE on a table that has overflowed.
C9_Witness ==
    /\ op = "full"
    /\ result = TRUE
    /\ size >= 1
    /\ Count = size
    /\ overfull_count > 0

\* C10: count never decreases, no entry is removed or renumbered, a full
\* table stays full and takes no further entry, and once more distinct
\* vectors than capacity were presented the table is full.
C10_Monotone ==
    /\ [][ /\ Cardinality(DOMAIN dictionary') >= Count
           /\ \A v \in DOMAIN dictionary :
                v \in DOMAIN dictionary' /\ dictionary'[v] = dictionary[v]
           /\ Count >= size =>
                /\ Cardinality(DOMAIN dictionary') >= size'
                /\ dictionary' = dictionary
         ]_vars
    /\ [](recording /\ Cardinality(DOMAIN served) > size => Count >= size)

\* More distinct vectors than capacity were presented and the last call
\* looked up a vector of the full table again.
C10_Witness ==
    /\ recording
    /\ op \in Inserting
    /\ size >= 1
    /\ Cardinality(DOMAIN served) > size
    /\ Count = size
    /\ \E i \in 1..Len(result) : CallKeys[i] \in DOMAIN dictionary

\* C11: for size >= 1 a free function returns indices in [0, size); called
\* again with the same size, after any inserting calls on a table, it gives
\* every tiling whose coordinate vector is the one of the first call the
\* index of the first call (so the same arguments give the same vector of
\* indices), and the index is the hash of the vector reduced modulo size.
C11_FreeStateless ==
    (op = "free_again" /\ ~panicked) =>
        /\ \A i \in 1..Len(result.again) :
             /\ result.again[i] >= 0
             /\ result.again[i] < args.size
             /\ result.again[i] = base_hash(result.again_keys[i]) % args.size
        /\ \A i \in 1..Len(result.again) : \A j \in 1..Len(result.first) :
             result.again_keys[i] = result.first_keys[j] =>
                 result.again[i] = result.first[j]
        /\ (result.first_op = result.again_op /\ result.first_args = args) =>
             result.again = result.first

\* A free function was called twice with the same arguments, for two
\* tilings and size 2, and the table took an entry in between.
C11_Witness ==
    /\ op = "free_again"
    /\ ~panicked
    /\ args.size = 2
    /\ args.num_tilings = 2
    /\ result.first_op = result.again_op
    /\ result.first_args = args
    /\ Count >= 1
    /\ Len(result.again) = 2

\* The example scenario at the points 0.0, 0.0 and then 0.5.
ExampleDone ==
    /\ op = "example_other"
    /\ result.at = 0
    /\ 2 * result.then = FloatDen

\* C12 as stated: in the example scenario tiles([0.0]) returns 0..7, the
\* second tiles([0.0]) returns the same 8 indices, and tiles([0.5]) then
\* returns 8 indices none of which was returned for [0.0].
C12_ExampleDisjoint ==
    ExampleDone =>
        /\ result.first = [i \in 1..ExampleTilings |-> i - 1]
        /\ result.again = result.first
        /\ Len(result.other) = ExampleTilings
        /\ Range(result.other) \cap Range(result.first) = {}

\* C12, amended: in the example scenario tiles([0.0]) returns 0..7, the
\* second tiles([0.0]) returns the same 8 indices, and tiles([0.5]) then
\* returns 8 indices that repeat those of [0.0] on the tilings 0..3 (the
\* displaced value stays below one tile width) and are the fresh indices
\* 8..11 on the tilings 4..7; the two vectors differ.
C12_ExampleHalfShared ==
    ExampleDone =>
        /\ result.first = [i \in 1..ExampleTilings |-> i - 1]
        /\ result.again = result.first
        /\ Len(result.other) = ExampleTilings
        /\ result.other # result.first
        /\ \A i \in 1..ExampleTilings :
             result.other[i] = IF 2 * i <= ExampleTilings THEN result.first[i]
                               ELSE ExampleTilings + (i - 1) - (ExampleTilings \div 2)
        /\ Count = ExampleTilings + ExampleTilings \div 2

\* The three calls of the example scenario were made.
C12_Witness ==
    /\ ExampleDone
    /\ ~panicked
    /\ size = ExampleSize
    /\ Len(result.other) = ExampleTilings

\* The quantized values of the request of a coordinate-generator run.
ArgQ == calculate_q_floats(args.floats, args.num_tilings)

\* C16: in the non-wrap generator the element of dimension i (from 0) of
\* tiling t is floor((q_i + b) / num_tilings), rounded toward negative
\* infinity, with b = t + 2*t*i, negative quantized values included.
C16_FloorFormula ==
    op = "calculate_coords" =>
        \A i \in 1..Len(ArgQ) :
            result[i + 1] =
                (ArgQ[i] + args.tiling + 2 * args.tiling * (i - 1)) \div args.num_tilings

\* C17: in the wrap generator the element of every dimension that has a
\* positive wrap width w lies in [0, w), negative quantized values included.
C17_WrapRange ==
    op = "calculate_coords_wrap" =>
        \A i \in 1..Min(Len(ArgQ), Len(args.wrap_widths)) :
            IsSome(args.wrap_widths[i]) =>
                /\ result[i + 1] >= 0
                /\ result[i + 1] < Unwrap(args.wrap_widths[i])

\* C18: a dimension whose wrap width is None gets from the wrap generator
\* the element the non-wrap generator gives it, so with every width None
\* the two generators return the same coordinate vector, for any number of
\* dimensions.
C18_NoneIsNonWrap ==
    (op = "coords_both" /\ Len(args.wrap_widths) = Len(args.floats)) =>
        /\ \A i \in 1..Len(args.floats) :
             args.wrap_widths[i] = None => result.wrap[i + 1] = result.plain[i + 1]
        /\ (\A i \in 1..Len(args.floats) : args.wrap_widths[i] = None) =>
             result.wrap = result.plain

\* The two requests of a run of SpecPair: their quantized values and the
\* coordinate vectors of their tilings.
FirstQ == calculate_q_floats(result.first_args.floats, args.num_tilings)
SecondQ == calculate_q_floats(args.floats, args.num_tilings)
FirstKeys == Keys(args.num_tilings, result.first_args.floats, result.first_args.ints)
SecondKeys == Keys(args.num_tilings, args.floats, args.ints)
Abs(a) == IF a >= 0 THEN a ELSE -a

\* C13: on a table that does not overflow, for any num_tilings and number
\* of dimensions, two points whose quantized values differ by at least
\* num_tilings in some dimension (either sign) have coordinate vectors that
\* differ in at least one tiling, and their index vectors differ.
C13_CoarseLocality ==
    (/\ op = "pair_second"
     /\ \E d \in 1..Len(SecondQ) : Abs(FirstQ[d] - SecondQ[d]) >= args.num_tilings) =>
        /\ \E t \in 1..args.num_tilings : FirstKeys[t] # SecondKeys[t]
        /\ result.second # result.first

\* Two points of two dimensions, of opposite signs in one of them and a
\* tile width or more apart there, with the same tags.
C13_Witness ==
    /\ op = "pair_second"
    /\ overfull_count = 0
    /\ Len(SecondQ) = 2
    /\ args.num_tilings = MaxPairTilings
    /\ args.ints = result.first_args.ints
    /\ \E d \in 1..2 :
         /\ FirstQ[d] < 0
         /\ SecondQ[d] > 0
         /\ SecondQ[d] - FirstQ[d] >= args.num_tilings
    /\ result.second # result.first

\* C14: for a one-dimensional input on a table that does not overflow, two
\* points with the same quantized value floor(x * num_tilings) get
\* identical index vectors, and two points whose quantized values differ
\* (any sign) get index vectors that differ in at least one tiling.
C14_FineLocality ==
    (/\ op = "pair_second"
     /\ Len(SecondQ) = 1
     /\ args.ints = result.first_args.ints) =>
        /\ FirstQ = SecondQ => result.second = result.first
        /\ FirstQ # SecondQ => result.second # result.first

\* C15: two requests with the same num_tilings, the same continuous values
\* and the same number of tags but different tag values have coordinate
\* vectors that differ in every tiling and, the table not overflowing,
\* disjoint index sets; every vector ends with the tags as given, after
\* the elements it has without tags.
C15_TagsSeparate ==
    op = "pair_second" =>
        /\ \A t \in 1..args.num_tilings :
             LET g == IF IsSome(args.ints) THEN Unwrap(args.ints) ELSE << >> IN
             SecondKeys[t] = Keys(args.num_tilings, args.floats, None)[t] \o g
        /\ (/\ args.floats = result.first_args.floats
            /\ IsSome(args.ints)
            /\ IsSome(result.first_args.ints)
            /\ Len(Unwrap(args.ints)) = Len(Unwrap(result.first_args.ints))
            /\ args.ints # result.first_args.ints) =>
               /\ \A t \in 1..args.num_tilings : FirstKeys[t] # SecondKeys[t]
               /\ Range(result.first) \cap Range(result.second) = {}

\* The same point of two dimensions, a negative value in it, asked with
\* two different tags at MaxPairTilings tilings.
C15_Witness ==
    /\ op = "pair_second"
    /\ overfull_count = 0
    /\ args.num_tilings = MaxPairTilings
    /\ args.floats = result.first_args.floats
    /\ Len(args.floats) = 2
    /\ args.floats[1] < 0
    /\ IsSome(args.ints)
    /\ IsSome(result.first_args.ints)
    /\ Len(Unwrap(args.ints)) = 1
    /\ Len(Unwrap(result.first_args.ints)) = 1
    /\ args.ints # result.first_args.ints
    /\ Cardinality(Range(result.first) \cup Range(result.second)) = 2 * MaxPairTilings

\* C20: the coordinate vectors of the tilings of one request are pairwise
\* distinct, and the first tiles or tiles_wrap call on a fresh table of
\* capacity >= num_tilings returns [0, 1, ..., num_tilings - 1], whatever
\* the input.
C20_FreshCallCountsUp ==
    /\ [](op \in Inserting \cup ReadOnly \cup Free =>
            \A i, j \in 1..args.num_tilings : i # j => CallKeys[i] # CallKeys[j])
    /\ [][ (/\ op' \in Inserting
            /\ Count = 0
            /\ overfull_count = 0
            /\ size >= args'.num_tilings) =>
               result' = [i \in 1..args'.num_tilings |-> i - 1]
         ]_vars

\* A call of MaxTilings tilings on a negative value filled a table of that
\* capacity with the indices 0..MaxTilings-1.
C20_Witness ==
    /\ op \in Inserting
    /\ args.num_tilings = MaxTilings
    /\ size = MaxTilings
    /\ overfull_count = 0
    /\ Count = MaxTilings
    /\ \E j \in 1..Len(args.floats) : args.floats[j] < 0
    /\ result = [i \in 1..MaxTilings |-> i - 1]

\* C19: a lookup of a present vector changes neither the mapping, nor the
\* count, nor overfull_count; a lookup of an absent vector with count <
\* capacity adds that one entry and leaves overfull_count as it was; a
\* lookup of an absent vector with count >= capacity leaves the mapping
\* and the count as they were and adds 1 to overfull_count.  overfull_count
\* starts at 0, so it is the number of lookups the fallback served.
C19_LookupFrames ==
    /\ overfull_count = 0
    /\ [][ op' = "get_index" =>
             /\ args' \in DOMAIN dictionary =>
                  /\ dictionary' = dictionary
                  /\ overfull_count' = overfull_count
                  /\ result' = dictionary[args']
             /\ (args' \notin DOMAIN dictionary /\ Count < size) =>
                  /\ DOMAIN dictionary' = DOMAIN dictionary \cup {args'}
                  /\ \A v \in DOMAIN dictionary : dictionary'[v] = dictionary[v]
                  /\ Cardinality(DOMAIN dictionary') = Count + 1
                  /\ overfull_count' = overfull_count
             /\ (args' \notin DOMAIN dictionary /\ Count >= size) =>
                  /\ dictionary' = dictionary
                  /\ overfull_count' = overfull_count + 1
         ]_vars

\* The fallback served a second lookup on a full table that holds entries.
C19_Witness ==
    /\ op = "get_index"
    /\ ~panicked
    /\ size >= 1
    /\ Count = size
    /\ args \notin DOMAIN dictionary
    /\ overfull_count = 2

\* C21: every coordinate vector either generator returns has length
\* 1 + (number of continuous values) + (number of tags), for every input,
\* also when wrap_widths and the continuous values differ in length.
C21_VectorLength ==
    op \in {"calculate_coords", "calculate_coords_wrap"} =>
        Len(result) = 1 + Len(args.floats)
                        + (IF IsSome(args.ints) THEN Len(Unwrap(args.ints)) ELSE 0)

\* C22: when several callers share one table and their lookups run one
\* whole lookup at a time in any interleaving, the stored indices are
\* pairwise distinct and are exactly {0, ..., count - 1}, and a stored
\* vector keeps the index it was given.
C22_SharedTableDense ==
    /\ [](/\ \A v, w \in DOMAIN dictionary :
                v # w => dictionary[v] # dictionary[w]
          /\ {dictionary[v] : v \in DOMAIN dictionary} = 0..(Count - 1)
          /\ op = "shared" =>
               \A c \in Callers : \A i \in 1..Len(result[c]) :
                   args[c][i] \in DOMAIN dictionary =>
                       result[c][i] = dictionary[args[c][i]])
    /\ [][\A v \in DOMAIN dictionary :
              v \in DOMAIN dictionary' /\ dictionary'[v] = dictionary[v]]_vars

\* Caller 1 was given index 0 and is in the middle of its call; a lookup of
\* caller 2 ran in between and was given index 1.
C22_Witness ==
    /\ op = "shared"
    /\ ~panicked
    /\ Len(args[1]) = 2
    /\ result[1] = <<0>>
    /\ Len(result[2]) >= 1
    /\ result[2][1] = 1
    /\ args[2][1] \in DOMAIN dictionary
    /\ args[1][2] \notin DOMAIN dictionary
    /\ Count = 2

\* What the free function of the same name returns for the arguments of
\* the inserting call the caller holds the result of, with the capacity of
\* the table as its size.
FreeAnswer ==
    IF op = "tiles"
    THEN tiles(size, args.num_tilings, args.floats, args.ints).ret
    ELSE tiles_wrap(size, args.num_tilings, args.floats, args.wrap_widths, args.ints).ret

\* C23: on a full table of capacity >= 1 the index IHT::tiles (IHT::tiles_wrap)
\* returns for a tiling whose coordinate vector has no slot is the index
\* the free function tiles (tiles_wrap) returns for that tiling with
\* size = capacity and the same inputs; it is the dedicated index of some
\* stored vector, a different one.
C23_FallbackIsFreeFunction ==
    (op \in Inserting /\ ~panicked /\ size >= 1) =>
        \A i \in 1..Len(result) :
            CallKeys[i] \notin DOMAIN dictionary =>
                /\ Count >= size
                /\ result[i] = FreeAnswer[i]
                /\ \E w \in DOMAIN dictionary :
                     w # CallKeys[i] /\ dictionary[w] = result[i]

\* A tiles_wrap call on a full table of capacity 2 got the fallback index
\* 1 for a vector without a slot.
C23_Witness ==
    /\ op = "tiles_wrap"
    /\ ~panicked
    /\ size = 2
    /\ Count = 2
    /\ \E i \in 1..Len(result) :
         /\ CallKeys[i] \notin DOMAIN dictionary
         /\ result[i] = 1
         /\ FreeAnswer[i] = 1

====
